---------------------------- MODULE Spec2Model ----------------------------
(***************************************************************************)
(* Model of the 3D-printing error detector:                                *)
(*   src/app.py              the Flask inference server                    *)
(*   src/raspberry_client.py the camera client                             *)
(*                                                                         *)
(* The server is modelled request by request: every handler is an operator *)
(* that computes, from the request and the outcomes of the external calls  *)
(* it makes (detector, JPEG encoder, chat provider), the HTTP response and *)
(* the number of detector / dispatcher / provider calls.  The state keeps  *)
(* the last request served and what it caused.                             *)
(*                                                                         *)
(* The client is modelled as the control flow of main(): one action per    *)
(* statement that calls out of main, with the outcomes of each call.       *)
(***************************************************************************)
EXTENDS Integers, Sequences, FiniteSets, TLC

(***************************************************************************)
(* Bounds of the model                                                     *)
(***************************************************************************)
\* longest byte stream of an uploaded image
MaxImageLen == 3
\* most detections the detector returns for one image
MaxBatch == 2
\* cap of the client's counters (consecutive capture failures, cycles)
MaxCount == 3

(***************************************************************************)
(* Characters of the strings the base64 transport carries.  0..63 are the  *)
(* characters of the base64 alphabet A-Z a-z 0-9 + / by their index.       *)
(***************************************************************************)
PAD == 64
COMMA == 65
COLON == 66
SEMI == 67

\* "data:image/jpeg;base64," as the client writes it
DATA_URI_PREFIX ==
    << 29, 26, 45, 26, COLON, 34, 38, 26, 32, 30, 63, 35, 41, 30, 32,
       SEMI, 27, 26, 44, 30, 58, 56, COMMA >>

\* values of the bytes of the modelled byte streams
ByteValues == {0, 77, 255}

RECURSIVE SeqsUpTo(_, _)
SeqsUpTo(S, n) ==
    IF n = 0 THEN { <<>> }
    ELSE LET shorter == SeqsUpTo(S, n - 1)
         IN  shorter \cup { Append(s, x) : s \in shorter, x \in S }

\* the byte streams a caller may upload
ByteStreams == SeqsUpTo(ByteValues, MaxImageLen)

(***************************************************************************)
(* base64.b64encode: three bytes to four characters, '=' padding           *)
(***************************************************************************)
RECURSIVE b64encode(_)
b64encode(b) ==
    IF Len(b) = 0 THEN <<>>
    ELSE IF Len(b) = 1 THEN
        << b[1] \div 4, (b[1] % 4) * 16, PAD, PAD >>
    ELSE IF Len(b) = 2 THEN
        LET n == b[1] * 256 + b[2]
        IN  << n \div 1024, (n \div 16) % 64, (n % 16) * 4, PAD >>
    ELSE
        LET n == b[1] * 65536 + b[2] * 256 + b[3]
        IN  << n \div 262144, (n \div 4096) % 64, (n \div 64) % 64, n % 64 >>
            \o b64encode(SubSeq(b, 4, Len(b)))

(***************************************************************************)
(* base64.b64decode(s) with validate=False, as binascii.a2b_base64 does    *)
(* it: characters outside the alphabet are skipped, a complete pad         *)
(* sequence stops the parse, leftover characters are an error.             *)
(* Result: [ok |-> BOOLEAN, bytes |-> the decoded bytes].                  *)
(***************************************************************************)
RECURSIVE a2b_base64(_, _, _, _, _, _)
a2b_base64(s, i, quad_pos, leftchar, pads, out) ==
    IF i > Len(s) THEN
        [ok |-> (quad_pos = 0), bytes |-> out]
    ELSE IF s[i] = PAD THEN
        IF quad_pos >= 2 /\ quad_pos + pads + 1 >= 4
        THEN [ok |-> TRUE, bytes |-> out]
        ELSE a2b_base64(s, i + 1, quad_pos, leftchar,
                        IF quad_pos >= 2 THEN pads + 1 ELSE pads, out)
    ELSE IF s[i] > 63 THEN
        a2b_base64(s, i + 1, quad_pos, leftchar, pads, out)
    ELSE IF quad_pos = 0 THEN
        a2b_base64(s, i + 1, 1, s[i], 0, out)
    ELSE IF quad_pos = 1 THEN
        a2b_base64(s, i + 1, 2, s[i] % 16, 0,
                   Append(out, leftchar * 4 + s[i] \div 16))
    ELSE IF quad_pos = 2 THEN
        a2b_base64(s, i + 1, 3, s[i] % 4, 0,
                   Append(out, leftchar * 16 + s[i] \div 4))
    ELSE
        a2b_base64(s, i + 1, 0, 0, 0, Append(out, leftchar * 64 + s[i]))

b64decode(s) == a2b_base64(s, 1, 0, 0, 0, <<>>)

\* position of the first comma of s at or after i, Len(s) + 1 if none
RECURSIVE FindComma(_, _)
FindComma(s, i) ==
    IF i > Len(s) THEN Len(s) + 1
    ELSE IF s[i] = COMMA THEN i
    ELSE FindComma(s, i + 1)

\* data['image'].split(',')[1] if ',' in data['image'] else data['image']
base64_payload(s) ==
    LET c1 == FindComma(s, 1)
    IN  IF c1 > Len(s) THEN s
        ELSE SubSeq(s, c1 + 1, FindComma(s, c1 + 1) - 1)

(***************************************************************************)
(* cv2.imdecode(np.frombuffer(bytes), IMREAD_COLOR).  The codec is outside *)
(* the repository; a stream is taken to hold an image when it starts with  *)
(* the signature byte 0xFF.  imdecode raises cv2.error on an empty buffer  *)
(* (its assertion !buf.empty()) and returns None for a stream it cannot    *)
(* decode.                                                                 *)
(***************************************************************************)
imdecode(bytes) ==
    IF Len(bytes) = 0 THEN "raise"
    ELSE IF bytes[1] = 255 THEN "image"
    ELSE "None"

(***************************************************************************)
(* Detections.  A row of the detector's table is modelled by its label;    *)
(* confidence and box do not enter any decision of the code.               *)
(***************************************************************************)
Labels == {"imprimiendo", "Imprimiendo", "stringing"}

\* str.lower() on the labels
lower(name) == IF name = "Imprimiendo" THEN "imprimiendo" ELSE name

Batches == SeqsUpTo(Labels, MaxBatch)

\* what model(image) does: raises, or returns a batch
DetectorOutcomes ==
    { [raises |-> TRUE, batch |-> <<>>] }
        \cup { [raises |-> FALSE, batch |-> b] : b \in Batches }

\* what the dispatcher's external calls do: cv2.imencode's success flag,
\* and requests.post to the chat provider
DispatchEnvs ==
    [imencode_ok : BOOLEAN, provider : {"200", "non200", "exception"}]

\* detections[detections['name'].str.lower() != 'imprimiendo']
error_rows(detections) ==
    SelectSeq(detections, LAMBDA name : lower(name) # "imprimiendo")

(***************************************************************************)
(* send_telegram_alert(image_array, detections)                            *)
(* Result: [ret |-> the boolean returned, provider |-> calls made to the   *)
(* chat provider].                                                         *)
(***************************************************************************)
\* a slip: any answer of the provider counts as sent
send_telegram_alert_true_on_failure(detections, env) ==
    IF error_rows(detections) = <<>> THEN [ret |-> FALSE, provider |-> 0]
    ELSE IF ~env.imencode_ok THEN [ret |-> FALSE, provider |-> 0]
    ELSE [ret |-> TRUE, provider |-> 1]

send_telegram_alert(detections, env) ==
    IF error_rows(detections) = <<>> THEN [ret |-> FALSE, provider |-> 0]
    ELSE IF ~env.imencode_ok THEN [ret |-> FALSE, provider |-> 0]
    ELSE IF env.provider = "exception" THEN [ret |-> FALSE, provider |-> 1]
    ELSE IF env.provider = "non200" THEN [ret |-> FALSE, provider |-> 1]
    ELSE [ret |-> TRUE, provider |-> 1]


(***************************************************************************)
(* State                                                                   *)
(***************************************************************************)
VARIABLES
    model,      \* app.py: the global detector handle, "None" or "loaded"
    request,    \* the last request the server answered
    outcome,    \* its response and the external calls it caused
    pair,       \* one source image answered over both transports
    pc,         \* raspberry_client.py: where main() stands
    camera,     \* client.camera: "None", "created", "started", "stopped"
    probe,      \* what the startup health probe got
    image,      \* this iteration's capture: "unset", "None", "frame"
    saved,      \* this iteration called cv2.imwrite to the end
    uploads,    \* this iteration's upload requests, in order
    primary,    \* what send_image_to_server returned this iteration
    result,     \* main's variable result: "unset", "None", "result"
    last_delay, \* seconds of the last time.sleep
    fail_streak,\* capture failures in a row
    releases,   \* calls of camera.stop() by cleanup
    exit,       \* how main() ended
    ever        \* what the client has done since it started

server_vars == << model, request, outcome, pair >>

cycle_vars == << image, saved, uploads, primary, result >>

client_vars ==
    << pc, camera, probe, image, saved, uploads, primary, result, last_delay,
       fail_streak, releases, exit, ever >>

vars == << model, request, outcome, pair, pc, camera, probe, image, saved,
           uploads, primary, result, last_delay, fail_streak, releases, exit,
           ever >>

(***************************************************************************)
(* Responses.  An outcome is the HTTP response together with what the      *)
(* handler did to get there: detector invocations, dispatcher invocations  *)
(* (and the batch handed over), calls to the chat provider.                *)
(***************************************************************************)
Outcome(code, body, detector, dispatch, dispatch_arg, provider) ==
    [ code |-> code, body |-> body, detector |-> detector,
      dispatch |-> dispatch, dispatch_arg |-> dispatch_arg,
      provider |-> provider ]

\* jsonify({"error": ...}), code
error_response(code, error, detector) ==
    Outcome(code, [error |-> error], detector, 0, <<>>, 0)

NoOutcome == Outcome(0, [error |-> "no request yet"], 0, 0, <<>>, 0)

(***************************************************************************)
(* The summary the handlers build from the detector's batch: the response  *)
(* data, the status tag and the alert.  The code writes it out twice, once *)
(* in each handler.                                                        *)
(***************************************************************************)
\* a slip: the status tag follows the alert's success
detect_errors_results_status_by_alert(detections, env) ==
    LET response_data ==
            [ detections_found |-> Len(detections),
              detections |-> <<>>,
              alert_sent |-> FALSE,
              status |-> "normal" ]
    IN  IF Len(detections) > 0 THEN
            IF error_rows(detections) # <<>> THEN
                LET alert == send_telegram_alert(detections, env)
                IN  Outcome(200,
                        [response_data EXCEPT
                            !.detections = detections,
                            !.alert_sent = alert.ret,
                            !.status = IF alert.ret THEN "error_detected"
                                       ELSE "printing_normal"],
                        1, 1, detections, alert.provider)
            ELSE
                Outcome(200,
                    [response_data EXCEPT
                        !.detections = detections,
                        !.status = "printing_normal"],
                    1, 0, <<>>, 0)
        ELSE Outcome(200, response_data, 1, 0, <<>>, 0)

\* POST /detect, after model(image) returned
detect_errors_results(detections, env) ==
    LET response_data ==
            [ detections_found |-> Len(detections),
              detections |-> <<>>,
              alert_sent |-> FALSE,
              status |-> "normal" ]
    IN  IF Len(detections) > 0 THEN
            IF error_rows(detections) # <<>> THEN
                LET alert == send_telegram_alert(detections, env)
                IN  Outcome(200,
                        [response_data EXCEPT
                            !.detections = detections,
                            !.alert_sent = alert.ret,
                            !.status = "error_detected"],
                        1, 1, detections, alert.provider)
            ELSE
                Outcome(200,
                    [response_data EXCEPT
                        !.detections = detections,
                        !.status = "printing_normal"],
                    1, 0, <<>>, 0)
        ELSE Outcome(200, response_data, 1, 0, <<>>, 0)

\* POST /detect_base64, after model(image) returned
detect_errors_base64_results(detections, env) ==
    LET response_data ==
            [ detections_found |-> Len(detections),
              detections |-> <<>>,
              alert_sent |-> FALSE,
              status |-> "normal" ]
    IN  IF Len(detections) > 0 THEN
            IF error_rows(detections) # <<>> THEN
                LET alert == send_telegram_alert(detections, env)
                IN  Outcome(200,
                        [response_data EXCEPT
                            !.detections = detections,
                            !.alert_sent = alert.ret,
                            !.status = "error_detected"],
                        1, 1, detections, alert.provider)
            ELSE
                Outcome(200,
                    [response_data EXCEPT
                        !.detections = detections,
                        !.status = "printing_normal"],
                    1, 0, <<>>, 0)
        ELSE Outcome(200, response_data, 1, 0, <<>>, 0)

(***************************************************************************)
(* POST /detect.  form: the multipart form, [has_image, filename, bytes].  *)
(* det: what model(image) does; env: what the dispatcher's calls do.       *)
(***************************************************************************)
\* a slip: the form is looked at before the detector handle
detect_errors_form_first(form, det, env) ==
    IF ~form.has_image THEN
        error_response(400, "No se envio ninguna imagen", 0)
    ELSE IF form.filename = "" THEN
        error_response(400, "Archivo vacio", 0)
    ELSE IF model = "None" THEN
        error_response(500, "Modelo no disponible", 0)
    ELSE IF imdecode(form.bytes) = "raise" THEN
        error_response(500, "Error interno del servidor", 0)
    ELSE IF imdecode(form.bytes) = "None" THEN
        error_response(400, "No se pudo decodificar la imagen", 0)
    ELSE IF det.raises THEN
        error_response(500, "Error interno del servidor", 1)
    ELSE detect_errors_results(det.batch, env)

detect_errors(form, det, env) ==
    IF model = "None" THEN
        error_response(500, "Modelo no disponible", 0)
    ELSE IF ~form.has_image THEN
        error_response(400, "No se envio ninguna imagen", 0)
    ELSE IF form.filename = "" THEN
        error_response(400, "Archivo vacio", 0)
    ELSE IF imdecode(form.bytes) = "raise" THEN
        \* cv2.error reaches the handler's except Exception
        error_response(500, "Error interno del servidor", 0)
    ELSE IF imdecode(form.bytes) = "None" THEN
        error_response(400, "No se pudo decodificar la imagen", 0)
    ELSE IF det.raises THEN
        error_response(500, "Error interno del servidor", 1)
    ELSE detect_errors_results(det.batch, env)

(***************************************************************************)
(* POST /detect_base64.  body: what request.get_json() finds,              *)
(* [kind, image]: "malformed" (get_json raises BadRequest), "empty" (a     *)
(* falsy document), "no_image" (no 'image' key), "non_string" ('image' is  *)
(* not a string), "string" ('image' is the string image).                  *)
(***************************************************************************)
detect_errors_base64(body, det, env) ==
    IF model = "None" THEN
        error_response(500, "Modelo no disponible", 0)
    ELSE IF body.kind = "malformed" THEN
        \* BadRequest reaches the handler's except Exception
        error_response(500, "Error interno del servidor", 0)
    ELSE IF body.kind \in {"empty", "no_image"} THEN
        error_response(400, "No se envio imagen en base64", 0)
    ELSE IF body.kind = "non_string" THEN
        error_response(400, "Error al decodificar imagen base64", 0)
    ELSE IF ~b64decode(base64_payload(body.image)).ok THEN
        error_response(400, "Error al decodificar imagen base64", 0)
    ELSE IF imdecode(b64decode(base64_payload(body.image)).bytes) = "raise" THEN
        error_response(400, "Error al decodificar imagen base64", 0)
    ELSE IF imdecode(b64decode(base64_payload(body.image)).bytes) = "None" THEN
        error_response(400, "No se pudo decodificar la imagen", 0)
    ELSE IF det.raises THEN
        error_response(500, "Error interno del servidor", 1)
    ELSE detect_errors_base64_results(det.batch, env)

\* GET /
health_check ==
    Outcome(200,
        [ status |-> IF model # "None" THEN "OK" ELSE "ERROR",
          model_loaded |-> (model # "None") ],
        0, 0, <<>>, 0)

(***************************************************************************)
(* Requests                                                                *)
(***************************************************************************)
NoForm == [has_image |-> FALSE, filename |-> "", bytes |-> <<>>]
NoBody == [kind |-> "empty", image |-> <<>>]
NoDet == [raises |-> FALSE, batch |-> <<>>]
NoEnv == [imencode_ok |-> TRUE, provider |-> "200"]

Request(endpoint, form, body, det, env) ==
    [endpoint |-> endpoint, form |-> form, body |-> body,
     det |-> det, env |-> env]

NoRequest == Request("none", NoForm, NoBody, NoDet, NoEnv)

\* the multipart forms a caller may post
Forms ==
    { NoForm }
        \cup { [has_image |-> TRUE, filename |-> "", bytes |-> <<>>] }
        \cup { [has_image |-> TRUE, filename |-> "capture.jpg", bytes |-> b] :
                 b \in ByteStreams }

\* strings that are no encoding of a byte stream: one character, a lone
\* comma, missing padding, two commas
OtherStrings ==
    { << 0 >>, << COMMA >>, << 63, 48 >>,
      << 26, COMMA, 63, 48, PAD, PAD, COMMA, 0 >> }

ImageStrings ==
    { b64encode(b) : b \in ByteStreams }
        \cup { DATA_URI_PREFIX \o b64encode(b) : b \in ByteStreams }
        \cup OtherStrings

\* the JSON bodies a caller may post
Bodies ==
    { [kind |-> k, image |-> <<>>] :
        k \in {"malformed", "empty", "no_image", "non_string"} }
        \cup { [kind |-> "string", image |-> s] : s \in ImageStrings }

NoPair ==
    [ valid |-> FALSE, image |-> <<>>, prefixed |-> FALSE,
      multipart |-> NoOutcome, base64 |-> NoOutcome ]

(***************************************************************************)
(* Server actions                                                          *)
(***************************************************************************)
\* model = load_model(): the handle, or None when loading raised
ServerInit ==
    /\ model \in {"None", "loaded"}
    /\ request = NoRequest
    /\ outcome = NoOutcome
    /\ pair = NoPair

\* the server takes one request at a time in this model: the handlers keep
\* no state between requests (the detector handle is only read)
Idle == request = NoRequest /\ pair = NoPair

GetHealth ==
    /\ Idle
    /\ request' = Request("/", NoForm, NoBody, NoDet, NoEnv)
    /\ outcome' = health_check
    /\ pair' = NoPair
    /\ UNCHANGED << model, client_vars >>

PostDetect ==
    /\ Idle
    /\ \E form \in Forms, det \in DetectorOutcomes, env \in DispatchEnvs :
        /\ request' = Request("/detect", form, NoBody, det, env)
        /\ outcome' = detect_errors(form, det, env)
        /\ pair' = NoPair
        /\ UNCHANGED << model, client_vars >>

PostDetectBase64 ==
    /\ Idle
    /\ \E body \in Bodies, det \in DetectorOutcomes, env \in DispatchEnvs :
        /\ request' = Request("/detect_base64", NoForm, body, det, env)
        /\ outcome' = detect_errors_base64(body, det, env)
        /\ pair' = NoPair
        /\ UNCHANGED << model, client_vars >>

\* one source image posted over both transports, the detector and the
\* dispatcher behaving the same for both
PostBothTransports ==
    /\ Idle
    /\ \E b \in ByteStreams, prefixed \in BOOLEAN,
          det \in DetectorOutcomes, env \in DispatchEnvs :
        /\ pair' =
            [ valid |-> TRUE, image |-> b, prefixed |-> prefixed,
              multipart |->
                detect_errors(
                    [has_image |-> TRUE, filename |-> "capture.jpg",
                     bytes |-> b], det, env),
              base64 |->
                detect_errors_base64(
                    [kind |-> "string",
                     image |-> IF prefixed
                               THEN DATA_URI_PREFIX \o b64encode(b)
                               ELSE b64encode(b)], det, env) ]
        /\ request' = NoRequest
        /\ outcome' = NoOutcome
        /\ UNCHANGED << model, client_vars >>

\* the response has been returned; the next request finds the same server
Respond ==
    /\ ~Idle
    /\ request' = NoRequest
    /\ outcome' = NoOutcome
    /\ pair' = NoPair
    /\ UNCHANGED << model, client_vars >>

ServerNext ==
    \/ Respond
    \/ GetHealth
    \/ PostDetect
    \/ PostDetectBase64
    \/ PostBothTransports


(***************************************************************************)
(* The client, src/raspberry_client.py                                     *)
(***************************************************************************)
CAPTURE_INTERVAL == 30
RETRY_DELAY == 5
HANDLER_DELAY == 10
CAMERA_SETTLE == 2

\* what session.get(SERVER_URL + "/") can come to: the call raises; an
\* answer other than 200; 200 whose body is no JSON object; 200 without
\* the key model_loaded; 200 with model_loaded false; 200 with it true
ProbeReplies ==
    {"exception", "non200", "bad_json", "no_field", "not_loaded", "loaded"}

\* what session.post to an upload endpoint can come to: "bad_body" is a
\* 200 whose body is not the JSON summary
UploadReplies == {"timeout", "connection", "non200", "bad_body", "200"}

\* a slip: a missing model_loaded counts as loaded
test_server_connection_default_true(reply) ==
    IF reply \in {"exception", "non200", "bad_json"} THEN FALSE
    ELSE IF reply = "no_field" THEN TRUE
    ELSE reply = "loaded"

\* CameraClient.test_server_connection
test_server_connection(reply) ==
    IF reply = "exception" THEN FALSE
    ELSE IF reply = "non200" THEN FALSE
    ELSE IF reply = "bad_json" THEN FALSE
    ELSE IF reply = "no_field" THEN FALSE
    ELSE reply = "loaded"

\* CameraClient.capture_image with USE_PI_CAMERA: the frame, or None when
\* capture_array or cvtColor raised
capture_image(camera_call) ==
    IF camera_call = "raise" THEN "None" ELSE "frame"

\* CameraClient.send_image_to_server: the summary on 200, None otherwise
\* (a 200 whose body lacks the summary's keys raises inside and gives None)
send_image_to_server(reply) ==
    IF reply = "200" THEN "result" ELSE "None"

\* CameraClient.send_image_base64
send_image_base64(reply) ==
    IF reply = "200" THEN "result" ELSE "None"

\* a slip: the continue is missing
after_capture_no_continue(img) == "save"

\* main: if image is None: ... time.sleep(5); continue
after_capture(img) ==
    IF img = "None" THEN "retry_delay" ELSE "save"

\* a slip: the fallback is sent whatever the primary upload returned
needs_fallback_always(res) == TRUE

\* main: if result is None: result = client.send_image_base64(image)
needs_fallback(res) == res = "None"

\* a slip: the delay grows with the failures in a row
retry_delay_backoff(streak) == RETRY_DELAY * streak

\* main: time.sleep(5) after a failed capture, whatever came before
retry_delay(streak) == RETRY_DELAY

\* a slip: only a camera that was started is stopped
cleanup_started_only(cam) == IF cam = "started" THEN 1 ELSE 0

\* CameraClient.cleanup: the calls of camera.stop() it makes
cleanup(cam) == IF cam # "None" THEN 1 ELSE 0

\* the positions of main() inside the try of the while loop
LoopBody ==
    {"capture", "retry_delay", "save", "send", "fallback", "interval_sleep"}

\* the positions of main() inside the while loop
Loop == LoopBody \cup {"handler_delay"}

Min(a, b) == IF a < b THEN a ELSE b

ClientInit ==
    /\ pc = "start"
    /\ camera = "None"
    /\ probe = "none"
    /\ image = "unset"
    /\ saved = FALSE
    /\ uploads = << >>
    /\ primary = "unset"
    /\ result = "unset"
    /\ last_delay = 0
    /\ fail_streak = 0
    /\ releases = 0
    /\ exit = "running"
    /\ ever = [captured |-> FALSE, wrote |-> FALSE, uploaded |-> FALSE]

\* client = CameraClient(), before main's try.  The constructor calls
\* requests.Session(); the module never imports requests, so as the file
\* stands the call raises NameError and main() ends there.  The rest of
\* main() is modelled for a module namespace that binds requests, time and
\* cv2.
Construct ==
    /\ pc = "start"
    /\ \/ pc' = "probe" /\ UNCHANGED exit
       \/ pc' = "crashed" /\ exit' = "error"
    /\ UNCHANGED << camera, probe, cycle_vars, last_delay, fail_streak,
                    releases, ever, server_vars >>

\* if not client.test_server_connection(): return
Probe ==
    /\ pc = "probe"
    /\ \E reply \in ProbeReplies :
        /\ probe' = reply
        /\ IF test_server_connection(reply)
           THEN pc' = "create_camera" /\ UNCHANGED exit
           ELSE pc' = "cleanup" /\ exit' = "return"
    /\ UNCHANGED << camera, cycle_vars, last_delay, fail_streak, releases,
                    ever, server_vars >>

\* initialize_camera: self.camera = Picamera2()
CreateCamera ==
    /\ pc = "create_camera"
    /\ \/ camera' = "created" /\ pc' = "start_camera" /\ UNCHANGED exit
       \/ pc' = "cleanup" /\ exit' = "fatal" /\ UNCHANGED camera
    /\ UNCHANGED << probe, cycle_vars, last_delay, fail_streak, releases,
                    ever, server_vars >>

\* initialize_camera: configure, start, time.sleep(2)
StartCamera ==
    /\ pc = "start_camera"
    /\ \/ /\ camera' = "started"
          /\ last_delay' = CAMERA_SETTLE
          /\ pc' = "capture"
          /\ UNCHANGED exit
       \/ /\ pc' = "cleanup"
          /\ exit' = "fatal"
          /\ UNCHANGED << camera, last_delay >>
    /\ UNCHANGED << probe, cycle_vars, fail_streak, releases, ever,
                    server_vars >>

\* image = client.capture_image(); the iteration's bookkeeping starts anew
Capture ==
    /\ pc = "capture"
    /\ \E camera_call \in {"frame", "raise"} :
        /\ image' = capture_image(camera_call)
        /\ fail_streak' =
            IF image' = "None" THEN Min(fail_streak + 1, MaxCount) ELSE 0
        /\ pc' = after_capture(image')
    /\ saved' = FALSE
    /\ uploads' = << >>
    /\ primary' = "unset"
    /\ result' = "unset"
    /\ ever' = [ever EXCEPT !.captured = TRUE]
    /\ UNCHANGED << camera, probe, last_delay, releases, exit, server_vars >>

\* time.sleep(5); continue
RetryDelay ==
    /\ pc = "retry_delay"
    /\ last_delay' = retry_delay(fail_streak)
    /\ pc' = "capture"
    /\ UNCHANGED << camera, probe, cycle_vars, fail_streak, releases, exit,
                    ever, server_vars >>

\* cv2.imwrite("captures/capture_<timestamp>.jpg", image); an exception
\* goes to the loop's except Exception
Save ==
    /\ pc = "save"
    /\ \/ /\ saved' = TRUE
          /\ ever' = [ever EXCEPT !.wrote = TRUE]
          /\ pc' = "send"
       \/ /\ pc' = "handler_delay"
          /\ UNCHANGED << saved, ever >>
    /\ UNCHANGED << camera, probe, image, uploads, primary, result,
                    last_delay, fail_streak, releases, exit, server_vars >>

\* result = client.send_image_to_server(image)
Send ==
    /\ pc = "send"
    /\ \E reply \in UploadReplies :
        /\ primary' = send_image_to_server(reply)
        /\ result' = primary'
        /\ pc' = IF needs_fallback(result') THEN "fallback"
                 ELSE "interval_sleep"
    /\ uploads' = Append(uploads, "multipart")
    /\ ever' = [ever EXCEPT !.uploaded = TRUE]
    /\ UNCHANGED << camera, probe, image, saved, last_delay, fail_streak,
                    releases, exit, server_vars >>

\* result = client.send_image_base64(image)
Fallback ==
    /\ pc = "fallback"
    /\ \E reply \in UploadReplies :
        result' = send_image_base64(reply)
    /\ uploads' = Append(uploads, "base64")
    /\ pc' = "interval_sleep"
    /\ UNCHANGED << camera, probe, image, saved, primary, last_delay,
                    fail_streak, releases, exit, ever, server_vars >>

\* time.sleep(CAPTURE_INTERVAL)
IntervalSleep ==
    /\ pc = "interval_sleep"
    /\ last_delay' = CAPTURE_INTERVAL
    /\ pc' = "capture"
    /\ UNCHANGED << camera, probe, cycle_vars, fail_streak, releases, exit,
                    ever, server_vars >>

\* except Exception: time.sleep(10), then the next iteration
HandlerDelay ==
    /\ pc = "handler_delay"
    /\ last_delay' = HANDLER_DELAY
    /\ pc' = "capture"
    /\ UNCHANGED << camera, probe, cycle_vars, fail_streak, releases, exit,
                    ever, server_vars >>

\* KeyboardInterrupt inside the loop's try: except KeyboardInterrupt, break,
\* then main's finally
InterruptInLoop ==
    /\ pc \in LoopBody
    /\ exit' = "interrupt"
    /\ pc' = "cleanup"
    /\ UNCHANGED << camera, probe, cycle_vars, last_delay, fail_streak,
                    releases, ever, server_vars >>

\* KeyboardInterrupt in main's try outside the loop's try (the probe, the
\* camera's initialization, the handler's delay): no except clause takes
\* it, main's finally runs and the interrupt leaves main()
InterruptOutsideLoop ==
    /\ pc \in {"probe", "create_camera", "start_camera", "handler_delay"}
    /\ exit' = "interrupt_raised"
    /\ pc' = "cleanup"
    /\ UNCHANGED << camera, probe, cycle_vars, last_delay, fail_streak,
                    releases, ever, server_vars >>

\* finally: client.cleanup()
Cleanup ==
    /\ pc = "cleanup"
    /\ releases' = releases + cleanup(camera)
    /\ camera' = IF cleanup(camera) > 0 THEN "stopped" ELSE camera
    /\ pc' = "done"
    /\ UNCHANGED << probe, cycle_vars, last_delay, fail_streak, exit, ever,
                    server_vars >>

ClientNext ==
    \/ Construct
    \/ Probe
    \/ CreateCamera
    \/ StartCamera
    \/ Capture
    \/ RetryDelay
    \/ Save
    \/ Send
    \/ Fallback
    \/ IntervalSleep
    \/ HandlerDelay
    \/ InterruptInLoop
    \/ InterruptOutsideLoop
    \/ Cleanup

(***************************************************************************)
(* Specifications: the server answering requests, the client running       *)
(* main(), and the client under the assumption that it keeps running       *)
(* (main() is one sequential thread: a step that can be taken is taken).   *)
(***************************************************************************)
Init == ServerInit /\ ClientInit

ServerSpec == Init /\ [][ServerNext]_vars

ClientSpec == Init /\ [][ClientNext]_vars

FairClientSpec == ClientSpec /\ WF_vars(ClientNext)


(***************************************************************************)
(* Properties of the server                                                *)
(***************************************************************************)
\* the last request went to one of the two detection endpoints
Detecting == request.endpoint \in {"/detect", "/detect_base64"}

\* the detector was invoked for it and returned a batch
GotBatch == Detecting /\ outcome.detector = 1 /\ ~request.det.raises

\* the batch holds a label that is not, letter for letter, 'imprimiendo'
OtherLabelVerbatim(b) == \E i \in 1..Len(b) : b[i] # "imprimiendo"

\* the batch holds a label that is not 'imprimiendo' once lower-cased
OtherLabel(b) == \E i \in 1..Len(b) : lower(b[i]) # "imprimiendo"

\* what the response and the calls must be when the batch has (has not) an
\* error label
AlertContract(has_error) ==
    IF has_error THEN
        /\ outcome.code = 200
        /\ outcome.dispatch = 1
        /\ outcome.dispatch_arg = request.det.batch
        /\ outcome.body.status = "error_detected"
        /\ outcome.provider = (IF request.env.imencode_ok THEN 1 ELSE 0)
        /\ outcome.body.alert_sent =
            (request.env.imencode_ok /\ request.env.provider = "200")
    ELSE
        /\ outcome.code = 200
        /\ outcome.dispatch = 0
        /\ outcome.provider = 0
        /\ outcome.body.alert_sent = FALSE

\* C1 as stated: the dispatcher is invoked, once and with the full batch,
\* exactly when the batch holds a label other than 'imprimiendo'; alert_sent
\* is what the dispatcher returned; no provider call otherwise.
C1_DispatchIffOtherLabelVerbatim ==
    GotBatch => AlertContract(OtherLabelVerbatim(request.det.batch))

\* C1 amended: the same, the labels being compared with 'imprimiendo' after
\* lower-casing (a batch of 'Imprimiendo' alone dispatches nothing).
C1_DispatchIffOtherLabel ==
    GotBatch => AlertContract(OtherLabel(request.det.batch))

\* C1 witness: an error label next to a sentinel in capitals, the provider
\* answers other than 200: one dispatch, a 200 summary, alert_sent false
C1_Witness ==
    /\ GotBatch
    /\ request.det.batch = << "Imprimiendo", "stringing" >>
    /\ request.env.imencode_ok
    /\ request.env.provider = "non200"
    /\ outcome.code = 200
    /\ outcome.dispatch = 1
    /\ outcome.provider = 1
    /\ outcome.body.status = "error_detected"
    /\ ~outcome.body.alert_sent

\* the status tag, the count and the records as a function of the batch
StatusContract(b, has_error) ==
    /\ outcome.body.detections_found = Len(b)
    /\ outcome.body.detections = b
    /\ outcome.body.status =
        IF Len(b) = 0 THEN "normal"
        ELSE IF has_error THEN "error_detected"
        ELSE "printing_normal"

\* C2 as stated: the status is 'normal' for the empty batch, 'printing_normal'
\* when every label is 'imprimiendo', 'error_detected' when one is not.
C2_StatusByVerbatimLabel ==
    GotBatch =>
        StatusContract(request.det.batch,
                       OtherLabelVerbatim(request.det.batch))

\* C2 amended: the same, the labels being compared after lower-casing; the
\* status is a function of the batch alone, whatever the dispatch did.
C2_StatusByLabel ==
    GotBatch =>
        StatusContract(request.det.batch, OtherLabel(request.det.batch))

\* C2 witness: a batch of sentinels that differ in case only
C2_Witness ==
    /\ GotBatch
    /\ request.endpoint = "/detect_base64"
    /\ request.det.batch = << "Imprimiendo", "imprimiendo" >>
    /\ outcome.body.status = "printing_normal"
    /\ outcome.body.detections_found = 2

\* the request carries no image, or a byte stream that is no image
NoUsableImage ==
    \/ /\ request.endpoint = "/detect"
       /\ \/ ~request.form.has_image
          \/ request.form.filename = ""
          \/ imdecode(request.form.bytes) # "image"
    \/ /\ request.endpoint = "/detect_base64"
       /\ \/ request.body.kind # "string"
          \/ ~b64decode(base64_payload(request.body.image)).ok
          \/ imdecode(b64decode(base64_payload(request.body.image)).bytes)
                # "image"

\* C3: with the detector loaded, a request of either transport whose image
\* is missing or cannot be decoded is answered 400, and neither the detector
\* nor the dispatcher is invoked.
C3_BadImageIs400 ==
    (Detecting /\ model # "None" /\ NoUsableImage) =>
        /\ outcome.code = 400
        /\ outcome.detector = 0
        /\ outcome.dispatch = 0

\* C4: without a detector every detection request is answered 500 with no
\* detector call and no dispatch, whatever it carries; GET / answers 200 and
\* reports model_loaded as the detector is loaded or not.
C4_NoModelIs500 ==
    /\ (Detecting /\ model = "None") =>
        /\ outcome.code = 500
        /\ outcome.detector = 0
        /\ outcome.dispatch = 0
        /\ outcome.provider = 0
    /\ request.endpoint = "/" =>
        /\ outcome.code = 200
        /\ outcome.body.model_loaded = (model # "None")

\* C4 witness: no detector, a form without an image, answered 500
C4_Witness ==
    /\ model = "None"
    /\ request.endpoint = "/detect"
    /\ ~request.form.has_image
    /\ outcome.code = 500

\* C5: the same image, detector result and dispatcher outcome give, over
\* multipart and over base64 (with or without the data-URI prefix), the same
\* HTTP status, the same summary and the same detector and dispatcher calls.
C5_TransportIndependent ==
    pair.valid =>
        /\ pair.multipart.code = pair.base64.code
        /\ pair.multipart.detector = pair.base64.detector
        /\ pair.multipart.dispatch = pair.base64.dispatch
        /\ pair.multipart.code = 200 =>
            /\ pair.multipart.body.detections_found
                = pair.base64.body.detections_found
            /\ pair.multipart.body.status = pair.base64.body.status
            /\ pair.multipart.body.alert_sent = pair.base64.body.alert_sent

(***************************************************************************)
(* Properties of the client                                                *)
(***************************************************************************)
Interrupted == exit \in {"interrupt", "interrupt_raised"}

\* C6: an iteration with a frame posts multipart once, then base64 once if
\* and only if the multipart upload returned None; never more than two
\* requests, never base64 first; after the fallback the iteration goes to
\* the interval sleep, and from there to the next capture.
C6_OneFallback ==
    /\ [](/\ uploads \in { << >>, << "multipart" >>,
                           << "multipart", "base64" >> }
          /\ uploads # << >> => image = "frame"
          /\ Len(uploads) = 2 => primary = "None"
          /\ pc = "fallback" =>
                uploads = << "multipart" >> /\ primary = "None"
          /\ pc = "interval_sleep" =>
                /\ image = "frame"
                /\ primary \in {"None", "result"}
                /\ uploads = IF primary = "None"
                             THEN << "multipart", "base64" >>
                             ELSE << "multipart" >>)
    /\ [][pc = "fallback" /\ ~Interrupted' => pc' = "interval_sleep"]_vars
    /\ [][pc = "interval_sleep" /\ ~Interrupted' =>
            pc' = "capture" /\ last_delay' = CAPTURE_INTERVAL]_vars

\* C6 witness: both uploads failed and the iteration is at its sleep
C6_Witness ==
    /\ pc = "interval_sleep"
    /\ uploads = << "multipart", "base64" >>
    /\ primary = "None"
    /\ result = "None"

\* C7: once main() has ended with a camera handle obtained, camera.stop()
\* was called exactly once, whichever way main() ended; it is never called
\* twice, and nothing follows the release.
C7_ReleasedOnce ==
    /\ [](/\ releases <= 1
          /\ pc = "done" => releases = (IF camera = "None" THEN 0 ELSE 1)
          /\ pc = "done" => camera \in {"None", "stopped"}
          /\ releases = 1 => pc = "done"
          /\ camera = "stopped" => releases = 1)
    /\ [][pc # "done"]_vars

\* C7 witness: an interrupt during the handler's delay, the camera released
C7_Witness ==
    /\ pc = "done"
    /\ exit = "interrupt_raised"
    /\ ever.captured
    /\ camera = "stopped"
    /\ releases = 1

\* C8: unless the probe got 200 with model_loaded true, the camera is never
\* initialized and nothing is captured, written or uploaded; inside the loop
\* the probe has succeeded and the camera is started.
C8_ProbeGates ==
    /\ probe # "loaded" =>
        /\ camera = "None"
        /\ ever = [captured |-> FALSE, wrote |-> FALSE, uploaded |-> FALSE]
        /\ pc \in {"start", "crashed", "probe", "cleanup", "done"}
    /\ pc \in Loop => probe = "loaded" /\ camera = "started"

\* C8 witness: the server answered 200 without a detector, main() returned
C8_Witness ==
    /\ pc = "done"
    /\ probe = "not_loaded"
    /\ exit = "return"
    /\ releases = 0

C10_CaptureFailureContinues ==
    /\ [](/\ image = "None" => ~saved /\ uploads = << >>
          /\ pc = "retry_delay" => image = "None"
          /\ pc \in {"save", "send", "fallback"} => image = "frame")
    /\ [][pc = "retry_delay" /\ ~Interrupted' =>
            pc' = "capture" /\ last_delay' = RETRY_DELAY]_vars
    /\ [][(pc \in Loop) /\ (pc' \notin Loop) =>
            Interrupted' /\ pc' = "cleanup"]_vars

\* C10 witness: after an iteration that uploaded, a capture fails: nothing
\* written or posted in this iteration, the short delay is next
C10_Witness ==
    /\ pc = "retry_delay"
    /\ ever.uploaded
    /\ image = "None"
    /\ ~saved
    /\ uploads = << >>

=============================================================================
